---- MODULE Spec2Model ----
(***************************************************************************)
(* URL prefill engine of the content module                                *)
(* (app/src/modules/content/composables/use-url-prefill.ts).               *)
(*                                                                         *)
(* Strings that the code inspects character by character (query keys,      *)
(* field names) are sequences of one-character strings, so that            *)
(* key.includes('.') and key.split('.') are computed, not assumed.         *)
(* Opaque strings (collection names, values, primary keys) are TLA+        *)
(* strings.  null / undefined is the record Null or the string NULL.       *)
(***************************************************************************)
EXTENDS Naturals, Sequences, FiniteSets, TLC

VARIABLES
    call,            \* the exported function under call
    query,           \* Object.entries(query): sequence of [key, value]
    collection,      \* the collection argument
    existingEdits,   \* the existingEdits argument (field name -> value)
    pc,              \* position of the caller: loop, awaiting, returned, raised
    i,               \* number of entries the for loop has consumed
    prefillData,     \* the result object (field name -> value)
    lookupPromises,  \* one record per scheduled resolveRelationalLookup
    apiCalls,        \* requests received by the item query service (api.get)
    relationReads,   \* getRelationForField calls received by the relations store
    classified,      \* keys handed to parseQueryParam by the aggregator
    parseCall,       \* the last call of parseQueryParam and what it returned
    focus,           \* which of two aggregator calls the variables above hold
    other,           \* the locals of the other aggregator call
    measurements,    \* latency store: state.measurements
    saved            \* latency store: what save was given since the last clear

\* The arguments, locals and logs of the prefill functions
prefillVars == <<call, query, collection, existingEdits, pc, i, prefillData,
                 lookupPromises, apiCalls, relationReads, classified, parseCall>>

\* The second aggregator call
pairVars == <<focus, other>>

\* The latency store
storeVars == <<measurements, saved>>

vars == <<prefillVars, pairVars, storeVars>>

----------------------------------------------------------------------------
(* Bounds *)

MaxHints == 2
MaxItems == 2
MaxSaves == 105

----------------------------------------------------------------------------
(* Strings as character sequences *)

DOT == "."

EmptyStr == << >>

RECURSIVE FirstDot(_, _)
FirstDot(s, j) ==
    IF j > Len(s) THEN 0
    ELSE IF s[j] = DOT THEN j
    ELSE FirstDot(s, j + 1)

\* String.prototype.includes('.')
Includes(s) == FirstDot(s, 1) # 0

\* Mutant: the key is split at its first dot only
Split_Once(s) ==
    LET j == FirstDot(s, 1)
    IN  IF j = 0 THEN << s >>
        ELSE << SubSeq(s, 1, j - 1), SubSeq(s, j + 1, Len(s)) >>

\* String.prototype.split('.'): always at least one part; parts may be empty
RECURSIVE Split(_)
Split(s) ==
    LET j == FirstDot(s, 1)
    IN  IF j = 0 THEN << s >>
        ELSE << SubSeq(s, 1, j - 1) >> \o Split(SubSeq(s, j + 1, Len(s)))

\* Mutant: an empty string counts as present
Truthy_EmptyIncluded(s) == TRUE

\* JavaScript truthiness of a string (or of undefined, modelled as EmptyStr)
Truthy(s) == s # EmptyStr

\* parts[n] of an array (0-based in the source); undefined is falsy like ""
Part(parts, n) == IF n + 1 <= Len(parts) THEN parts[n + 1] ELSE EmptyStr

----------------------------------------------------------------------------
(* Values *)

NULL == "<null>"

Null == [kind |-> "null"]

\* prefillData[field] = value on a plain object
Put(obj, field, value) ==
    [f \in DOMAIN obj \cup {field} |-> IF f = field THEN value ELSE obj[f]]

EmptyObject == [f \in {} |-> NULL]

----------------------------------------------------------------------------
(* Names used by the inputs *)

K_empty    == << >>
K_s        == << "s" >>
K_p        == << "p" >>
K_o        == << "o" >>
K_m        == << "m" >>
K_a        == << "a" >>
K_n        == << "n" >>
K_p_a      == << "p", ".", "a" >>
K_p_n      == << "p", ".", "n" >>
K_o_a      == << "o", ".", "a" >>
K_m_a      == << "m", ".", "a" >>
K_s_a      == << "s", ".", "a" >>
K_dot_a    == << ".", "a" >>
K_p_dot    == << "p", "." >>
K_bookmark == << "b", "o", "o", "k", "m", "a", "r", "k" >>
K_version  == << "v", "e", "r", "s", "i", "o", "n" >>
K_all      == << "a", "l", "l" >>
K_archived == << "a", "r", "c", "h", "i", "v", "e", "d" >>
K_all_a    == << "a", "l", "l", ".", "a" >>
K_dot      == << "." >>
K_p_dot_a  == << "p", ".", ".", "a" >>
K_p_a_dot  == << "p", ".", "a", "." >>
K_p_a_x    == << "p", ".", "a", ".", "x" >>
K_p_a_x_n  == << "p", ".", "a", ".", "x", ".", "n" >>
K_s_a_x    == << "s", ".", "a", ".", "x" >>
K_m_a_x    == << "m", ".", "a", ".", "x" >>

----------------------------------------------------------------------------
(* External collaborators: relations store, fields store *)

\* Content of the relations store: p, o and all are relational fields of
\* cases; m is a relation without a related collection (many-to-any).
Relations ==
    { [collection |-> "cases", field |-> K_p,   related_collection |-> "programs"],
      [collection |-> "cases", field |-> K_o,   related_collection |-> "orphans"],
      [collection |-> "cases", field |-> K_m,   related_collection |-> NULL],
      [collection |-> "cases", field |-> K_all, related_collection |-> "users"] }

\* Content of the fields store: orphans has no primary key configured.
PrimaryKeys ==
    { [collection |-> "programs", field |-> "id"],
      [collection |-> "users",    field |-> "uid"] }

\* relationsStore.getRelationForField(collection, field): a relation or null
getRelationForField(coll, field) ==
    LET found == { r \in Relations : r.collection = coll /\ r.field = field }
    IN  IF found = {} THEN [found |-> FALSE, related_collection |-> NULL]
        ELSE [found |-> TRUE,
              related_collection |-> (CHOOSE r \in found : TRUE).related_collection]

\* fieldsStore.getPrimaryKeyFieldForCollection(collection): a field or null
getPrimaryKeyFieldForCollection(coll) ==
    LET found == { r \in PrimaryKeys : r.collection = coll }
    IN  IF found = {} THEN [found |-> FALSE, field |-> NULL]
        ELSE [found |-> TRUE, field |-> (CHOOSE r \in found : TRUE).field]

----------------------------------------------------------------------------
(* parseQueryParam *)

\* Mutant: 'all' is missing from the list
RESERVED_QUERY_PARAMS_NoAll == { K_bookmark, K_version, K_archived }

\* Mutant: 'archived' is missing from the list
RESERVED_QUERY_PARAMS_NoArchived == { K_bookmark, K_version, K_all }

RESERVED_QUERY_PARAMS == { K_bookmark, K_version, K_all, K_archived }

\* Mutant: line 72 tests the relation only, not its related collection
parseQueryParam_AnyRelation(key, value, coll) ==
    IF key \in RESERVED_QUERY_PARAMS
    THEN [kind |-> "null", consulted |-> {}]
    ELSE IF Includes(key)
    THEN LET parts       == Split(key)
             fieldName   == Part(parts, 0)
             lookupField == Part(parts, 1)
         IN  IF ~Truthy(fieldName) \/ ~Truthy(lookupField)
             THEN [kind |-> "null", consulted |-> {}]
             ELSE LET relation == getRelationForField(coll, fieldName)
                      read     == { [collection |-> coll, field |-> fieldName] }
                  IN  IF relation.found
                      THEN [kind |-> "relational",
                            field |-> fieldName,
                            lookupField |-> lookupField,
                            lookupValue |-> value,
                            relatedCollection |-> relation.related_collection,
                            consulted |-> read]
                      ELSE [kind |-> "null", consulted |-> read]
    ELSE [kind |-> "direct", field |-> key, value |-> value, consulted |-> {}]

\* Mutant: an undotted key is looked up in the relations store, and a
\* relational field is not taken as a direct value
parseQueryParam_DirectReadsRelation(key, value, coll) ==
    IF key \in RESERVED_QUERY_PARAMS
    THEN [kind |-> "null", consulted |-> {}]
    ELSE IF Includes(key)
    THEN LET parts       == Split(key)
             fieldName   == Part(parts, 0)
             lookupField == Part(parts, 1)
         IN  IF ~Truthy(fieldName) \/ ~Truthy(lookupField)
             THEN [kind |-> "null", consulted |-> {}]
             ELSE LET relation == getRelationForField(coll, fieldName)
                      read     == { [collection |-> coll, field |-> fieldName] }
                  IN  IF relation.found /\ relation.related_collection # NULL
                      THEN [kind |-> "relational",
                            field |-> fieldName,
                            lookupField |-> lookupField,
                            lookupValue |-> value,
                            relatedCollection |-> relation.related_collection,
                            consulted |-> read]
                      ELSE [kind |-> "null", consulted |-> read]
    ELSE LET read == { [collection |-> coll, field |-> key] }
         IN  IF getRelationForField(coll, key).found
             THEN [kind |-> "null", consulted |-> read]
             ELSE [kind |-> "direct", field |-> key, value |-> value,
                   consulted |-> read]

\* The value parseQueryParam returns, with the relations-store reads it made.
parseQueryParam(key, value, coll) ==
    IF key \in RESERVED_QUERY_PARAMS
    THEN [kind |-> "null", consulted |-> {}]
    ELSE IF Includes(key)
    THEN LET parts       == Split(key)
             fieldName   == Part(parts, 0)
             lookupField == Part(parts, 1)
         IN  IF ~Truthy(fieldName) \/ ~Truthy(lookupField)
             THEN [kind |-> "null", consulted |-> {}]
             ELSE LET relation == getRelationForField(coll, fieldName)
                      read     == { [collection |-> coll, field |-> fieldName] }
                  IN  IF relation.found /\ relation.related_collection # NULL
                      THEN [kind |-> "relational",
                            field |-> fieldName,
                            lookupField |-> lookupField,
                            lookupValue |-> value,
                            relatedCollection |-> relation.related_collection,
                            consulted |-> read]
                      ELSE [kind |-> "null", consulted |-> read]
    ELSE [kind |-> "direct", field |-> key, value |-> value, consulted |-> {}]

\* Mutant: field is taken from the second segment
ParamOf_FieldFromLookup(parsed) ==
    [field |-> parsed.lookupField, lookupField |-> parsed.lookupField,
     lookupValue |-> parsed.lookupValue,
     relatedCollection |-> parsed.relatedCollection]

\* The ParsedRelationalParam of a relational parse result
ParamOf(parsed) ==
    [field |-> parsed.field, lookupField |-> parsed.lookupField,
     lookupValue |-> parsed.lookupValue,
     relatedCollection |-> parsed.relatedCollection]

----------------------------------------------------------------------------
(* resolveRelationalLookup *)

NoResponse == [kind |-> "none", items |-> << >>]

\* Mutant: the last item is used instead of the first
TryBlock_LastItem(param, pkField, response) ==
    IF response.kind \in {"error", "malformed"}
    THEN [kind |-> "throw"]
    ELSE IF response.kind = "items" /\ Len(response.items) > 0
    THEN [kind |-> "entry", field |-> param.field,
          value |-> response.items[Len(response.items)][pkField]]
    ELSE Null

\* The try block: api.get and the reading of response.data.data
TryBlock(param, pkField, response) ==
    IF response.kind \in {"error", "malformed"}
    THEN [kind |-> "throw"]
    ELSE IF response.kind = "items" /\ Len(response.items) > 0
    THEN [kind |-> "entry", field |-> param.field,
          value |-> response.items[1][pkField]]
    ELSE Null

\* Mutant: no catch, the exception leaves resolveRelationalLookup
TryCatch_NoCatch(param, pkField, response) ==
    TryBlock(param, pkField, response)

\* Mutant: the catch falls back to the raw lookup value
TryCatch_FallbackToRaw(param, pkField, response) ==
    LET r == TryBlock(param, pkField, response)
    IN  IF r.kind = "throw"
        THEN [kind |-> "entry", field |-> param.field, value |-> param.lookupValue]
        ELSE r

\* try { ... } catch { return null }
TryCatch(param, pkField, response) ==
    LET r == TryBlock(param, pkField, response)
    IN  IF r.kind = "throw" THEN Null ELSE r

\* Mutant: the request is sent although the related collection has no
\* primary-key field
RequestOf_BeforePkCheck(param) ==
    IF param.relatedCollection = NULL
    THEN [sent |-> FALSE]
    ELSE [sent |-> TRUE,
          path |-> param.relatedCollection,
          filterField |-> param.lookupField,
          filterEq |-> param.lookupValue,
          fields |-> << getPrimaryKeyFieldForCollection(param.relatedCollection).field >>,
          limit |-> 1]

\* Whether the call reaches api.get, and the request it sends
RequestOf(param) ==
    IF param.relatedCollection = NULL
    THEN [sent |-> FALSE]
    ELSE LET relatedPkField == getPrimaryKeyFieldForCollection(param.relatedCollection)
         IN  IF ~relatedPkField.found
             THEN [sent |-> FALSE]
             ELSE [sent |-> TRUE,
                   path |-> param.relatedCollection,
                   filterField |-> param.lookupField,
                   filterEq |-> param.lookupValue,
                   fields |-> << relatedPkField.field >>,
                   limit |-> 1]

\* The value the promise of resolveRelationalLookup(param) settles with, given
\* the response of the item query service to its request (if it sent one).
resolveRelationalLookup(param, response) ==
    IF param.relatedCollection = NULL
    THEN Null
    ELSE LET relatedPkField == getPrimaryKeyFieldForCollection(param.relatedCollection)
         IN  IF ~relatedPkField.found
             THEN Null
             ELSE TryCatch(param, relatedPkField.field, response)

----------------------------------------------------------------------------
(* Inputs *)

HintKeys ==
    { K_empty, K_s, K_p, K_p_a, K_p_n, K_o_a, K_m_a, K_s_a,
      K_dot_a, K_p_dot, K_all, K_all_a, K_bookmark, K_version, K_archived }

HintValues == { "ABC", "XYZ" }

Hints == [key : HintKeys, value : HintValues]

\* Object.entries(query): at most MaxHints entries, no key twice
Queries ==
    { q \in UNION { [1..n -> Hints] : n \in 0..MaxHints } :
        \A a, b \in 1..Len(q) : a # b => q[a].key # q[b].key }

EditFields == { K_empty, K_p }

EditSets == { [f \in fs |-> "edited"] : fs \in SUBSET EditFields }

PkValues == { "#42", "#43" }

\* An item of the item query service: the requested field and its value
Item(field, value) == field :> value

\* The item lists of at most n items
ItemLists(field, n) ==
    UNION { [1..m -> { Item(field, v) : v \in PkValues }] : m \in 0..n }

ItemsResponse(items) == [kind |-> "items", items |-> items]

\* What the item query service may answer to a request for `field`:
\* a rejection, a response without data, a response whose data is null,
\* or a list of items.
Failures ==
    { [kind |-> "error", items |-> << >>],
      [kind |-> "malformed", items |-> << >>],
      [kind |-> "nodata", items |-> << >>] }

Responses(field) ==
    Failures \cup { ItemsResponse(l) : l \in ItemLists(field, MaxItems) }

\* The answers drawn while an aggregator call is running
AggregatorResponses(field) ==
    { [kind |-> "error", items |-> << >>],
      ItemsResponse(<< >>),
      ItemsResponse(<< Item(field, "#42") >>),
      ItemsResponse(<< Item(field, "#43"), Item(field, "#42") >>) }

\* The parameters of a direct call of resolveRelationalLookup
UnitParams ==
    [field : { K_p }, lookupField : { K_a, K_n }, lookupValue : HintValues,
     relatedCollection : { "programs", "users", "orphans", NULL }]

\* The keys of a direct call of parseQueryParam
ParseKeys ==
    HintKeys \cup { K_o, K_m, K_dot, K_p_dot_a, K_p_a_dot, K_p_a_x, K_p_a_x_n,
                    K_s_a_x, K_m_a_x }

\* The values of a direct call of parseQueryParam
ParseValues == HintValues \cup { "42" }

\* The collections of a direct call of parseQueryParam
ParseCollections == { "cases", "programs" }

----------------------------------------------------------------------------
(* State machine *)

AGGREGATE == "resolveUrlPrefillData"
RESOLVE   == "resolveRelationalLookup"
PARSE     == "parseQueryParam"

\* No call of parseQueryParam yet
NoParse == [key |-> << >>, value |-> NULL, result |-> [kind |-> "none"]]

\* The locals of an aggregator call that has just been entered
NewCall(q, edits) ==
    [query |-> q, existingEdits |-> edits, pc |-> "loop", i |-> 0,
     prefillData |-> EmptyObject, lookupPromises |-> << >>, apiCalls |-> << >>,
     classified |-> {}, parseCall |-> NoParse]

\* There is no second call
NoCall == [NewCall(<< >>, EmptyObject) EXCEPT !.pc = "none"]

Init ==
    /\ call \in { AGGREGATE, RESOLVE, PARSE }
    /\ IF call = PARSE
       THEN collection \in ParseCollections
       ELSE collection = "cases"
    /\ IF call = AGGREGATE
       THEN query \in Queries /\ existingEdits \in EditSets
       ELSE query = << >> /\ existingEdits = EmptyObject
    /\ pc = "loop"
    /\ i = 0
    /\ prefillData = EmptyObject
    /\ lookupPromises = << >>
    /\ apiCalls = << >>
    /\ relationReads = {}
    /\ classified = {}
    /\ parseCall = NoParse
    /\ focus = 1
    /\ other = NoCall
    /\ measurements = << >>
    /\ saved = << >>

\* line 154: the owning field of a key
OwningField(key) == IF Includes(key) THEN Part(Split(key), 0) ELSE key

\* Mutant: the whole key is looked up in existingEdits
AlreadyEdited_WholeKey(key, edits) ==
    Truthy(key) /\ key \in DOMAIN edits

\* line 156: fieldName && fieldName in existingEdits
AlreadyEdited(key, edits) ==
    Truthy(OwningField(key)) /\ OwningField(key) \in DOMAIN edits

\* A call of resolveRelationalLookup up to its first suspension: the promise
\* it returns, and the request it has sent (if any).
NewLookup(param) ==
    [param |-> param, sent |-> RequestOf(param).sent, status |-> "pending",
     response |-> NoResponse, result |-> [kind |-> "none"]]

InLoop == call = AGGREGATE /\ pc = "loop" /\ i < Len(query)

\* lines 156-158: continue
SkipEdited ==
    /\ InLoop
    /\ AlreadyEdited(query[i + 1].key, existingEdits)
    /\ i' = i + 1
    /\ UNCHANGED <<pairVars, storeVars, call, query, collection, existingEdits, pc, prefillData,
                   lookupPromises, apiCalls, relationReads, classified, parseCall>>

\* lines 160-164: parseQueryParam returned null
SkipRejected ==
    /\ InLoop
    /\ ~AlreadyEdited(query[i + 1].key, existingEdits)
    /\ LET parsed == parseQueryParam(query[i + 1].key, query[i + 1].value, collection)
       IN  /\ parsed.kind = "null"
           /\ parseCall' = [key |-> query[i + 1].key,
                            value |-> query[i + 1].value, result |-> parsed]
           /\ relationReads' = relationReads \cup parsed.consulted
    /\ classified' = classified \cup { query[i + 1].key }
    /\ i' = i + 1
    /\ UNCHANGED <<pairVars, storeVars, call, query, collection, existingEdits, pc, prefillData,
                   lookupPromises, apiCalls>>

\* Mutant: the direct value is written into existingEdits as well
WriteDirect_IntoEdits ==
    /\ InLoop
    /\ ~AlreadyEdited(query[i + 1].key, existingEdits)
    /\ LET parsed == parseQueryParam(query[i + 1].key, query[i + 1].value, collection)
       IN  /\ parsed.kind = "direct"
           /\ parseCall' = [key |-> query[i + 1].key,
                            value |-> query[i + 1].value, result |-> parsed]
           /\ prefillData' = Put(prefillData, parsed.field, parsed.value)
           /\ existingEdits' = Put(existingEdits, parsed.field, parsed.value)
           /\ relationReads' = relationReads \cup parsed.consulted
    /\ classified' = classified \cup { query[i + 1].key }
    /\ i' = i + 1
    /\ UNCHANGED <<pairVars, storeVars, call, query, collection, pc, lookupPromises, apiCalls>>

\* lines 175-177: a direct value is written at once
WriteDirect ==
    /\ InLoop
    /\ ~AlreadyEdited(query[i + 1].key, existingEdits)
    /\ LET parsed == parseQueryParam(query[i + 1].key, query[i + 1].value, collection)
       IN  /\ parsed.kind = "direct"
           /\ parseCall' = [key |-> query[i + 1].key,
                            value |-> query[i + 1].value, result |-> parsed]
           /\ prefillData' = Put(prefillData, parsed.field, parsed.value)
           /\ relationReads' = relationReads \cup parsed.consulted
    /\ classified' = classified \cup { query[i + 1].key }
    /\ i' = i + 1
    /\ UNCHANGED <<pairVars, storeVars, call, query, collection, existingEdits, pc,
                   lookupPromises, apiCalls>>

\* Mutant: the loop awaits each resolution before it goes on to the next hint
ScheduleLookup_AwaitEach ==
    /\ InLoop
    /\ ~AlreadyEdited(query[i + 1].key, existingEdits)
    /\ LET parsed == parseQueryParam(query[i + 1].key, query[i + 1].value, collection)
       IN  /\ parsed.kind = "relational"
           /\ parseCall' = [key |-> query[i + 1].key,
                            value |-> query[i + 1].value, result |-> parsed]
           /\ \E response \in
                    IF RequestOf(ParamOf(parsed)).sent
                    THEN AggregatorResponses(
                             getPrimaryKeyFieldForCollection(
                                 parsed.relatedCollection).field)
                    ELSE { NoResponse } :
                 LET result == resolveRelationalLookup(ParamOf(parsed), response)
                 IN  /\ lookupPromises' =
                           Append(lookupPromises,
                                  [NewLookup(ParamOf(parsed)) EXCEPT
                                     !.status = "fulfilled",
                                     !.response = response,
                                     !.result = result])
                     /\ prefillData' =
                           IF result.kind = "entry"
                           THEN Put(prefillData, result.field, result.value)
                           ELSE prefillData
           /\ apiCalls' = IF RequestOf(ParamOf(parsed)).sent
                          THEN Append(apiCalls, RequestOf(ParamOf(parsed)))
                          ELSE apiCalls
           /\ relationReads' = relationReads \cup parsed.consulted
    /\ classified' = classified \cup { query[i + 1].key }
    /\ i' = i + 1
    /\ UNCHANGED <<pairVars, storeVars, call, query, collection, existingEdits, pc>>

\* Mutant: a request another call has already sent is not sent again
ScheduleLookup_Cached ==
    /\ InLoop
    /\ ~AlreadyEdited(query[i + 1].key, existingEdits)
    /\ LET parsed == parseQueryParam(query[i + 1].key, query[i + 1].value, collection)
       IN  /\ parsed.kind = "relational"
           /\ parseCall' = [key |-> query[i + 1].key,
                            value |-> query[i + 1].value, result |-> parsed]
           /\ lookupPromises' = Append(lookupPromises, NewLookup(ParamOf(parsed)))
           /\ apiCalls' = IF /\ RequestOf(ParamOf(parsed)).sent
                             /\ \A j \in 1..Len(other.apiCalls) :
                                   other.apiCalls[j] # RequestOf(ParamOf(parsed))
                          THEN Append(apiCalls, RequestOf(ParamOf(parsed)))
                          ELSE apiCalls
           /\ relationReads' = relationReads \cup parsed.consulted
    /\ classified' = classified \cup { query[i + 1].key }
    /\ i' = i + 1
    /\ UNCHANGED <<pairVars, storeVars, call, query, collection, existingEdits,
                   pc, prefillData>>

\* lines 166-174: resolveRelationalLookup is called and its promise kept
ScheduleLookup ==
    /\ InLoop
    /\ ~AlreadyEdited(query[i + 1].key, existingEdits)
    /\ LET parsed == parseQueryParam(query[i + 1].key, query[i + 1].value, collection)
       IN  /\ parsed.kind = "relational"
           /\ parseCall' = [key |-> query[i + 1].key,
                            value |-> query[i + 1].value, result |-> parsed]
           /\ lookupPromises' = Append(lookupPromises, NewLookup(ParamOf(parsed)))
           /\ apiCalls' = IF RequestOf(ParamOf(parsed)).sent
                          THEN Append(apiCalls, RequestOf(ParamOf(parsed)))
                          ELSE apiCalls
           /\ relationReads' = relationReads \cup parsed.consulted
    /\ classified' = classified \cup { query[i + 1].key }
    /\ i' = i + 1
    /\ UNCHANGED <<pairVars, storeVars, call, query, collection, existingEdits, pc, prefillData>>

\* line 181: the loop is over, the caller suspends on Promise.all
AwaitAll ==
    /\ call = AGGREGATE
    /\ pc = "loop"
    /\ i = Len(query)
    /\ pc' = "awaiting"
    /\ UNCHANGED <<pairVars, storeVars, call, query, collection, existingEdits, i, prefillData,
                   lookupPromises, apiCalls, relationReads, classified, parseCall>>

\* A direct call of resolveRelationalLookup(param), awaited by its caller
CallResolve ==
    /\ call = RESOLVE
    /\ pc = "loop"
    /\ \E param \in UnitParams :
          /\ lookupPromises' = << NewLookup(param) >>
          /\ apiCalls' = IF RequestOf(param).sent
                         THEN << RequestOf(param) >>
                         ELSE apiCalls
    /\ pc' = "awaiting"
    /\ UNCHANGED <<pairVars, storeVars, call, query, collection, existingEdits, i, prefillData,
                   relationReads, classified, parseCall>>

\* A direct call of parseQueryParam(key, value, collection)
CallParse ==
    /\ call = PARSE
    /\ pc = "loop"
    /\ \E key \in ParseKeys, value \in ParseValues :
          LET result == parseQueryParam(key, value, collection)
          IN  /\ parseCall' = [key |-> key, value |-> value, result |-> result]
              /\ relationReads' = relationReads \cup result.consulted
    /\ pc' = "returned"
    /\ UNCHANGED <<pairVars, storeVars, call, query, collection, existingEdits, i, prefillData,
                   lookupPromises, apiCalls, classified>>

\* Mutant: the promises are not awaited
PromiseAllSettled_NoWait(promises) == TRUE

\* Promise.all(lookupPromises) has settled: every promise is fulfilled, or
\* one is rejected
PromiseAllSettled(promises) ==
    \/ \A k \in 1..Len(promises) : promises[k].status = "fulfilled"
    \/ \E k \in 1..Len(promises) : promises[k].status = "rejected"

\* Mutant: a key already present is not overwritten
ThenCallback_KeepExisting(data, result) ==
    IF result.kind = "entry" /\ result.field \notin DOMAIN data
    THEN Put(data, result.field, result.value)
    ELSE data

\* lines 168-172: the .then callback of a lookup
ThenCallback(data, result) ==
    IF result.kind = "entry" THEN Put(data, result.field, result.value) ELSE data

\* The responses the item query service may give to lookup k
ResponsesFor(k) ==
    IF ~lookupPromises[k].sent THEN { NoResponse }
    ELSE LET field == getPrimaryKeyFieldForCollection(
                          lookupPromises[k].param.relatedCollection).field
         IN  IF call = AGGREGATE THEN AggregatorResponses(field)
             ELSE Responses(field)

\* Mutant: a resolution may complete, and its callback run, while the
\* synchronous loop is running
SettleLookup_DuringLoop ==
    /\ \E k \in 1..Len(lookupPromises) :
          /\ lookupPromises[k].status = "pending"
          /\ \E response \in ResponsesFor(k) :
                LET result == resolveRelationalLookup(lookupPromises[k].param, response)
                IN  /\ lookupPromises' =
                          [lookupPromises EXCEPT
                             ![k].status = IF result.kind = "throw"
                                           THEN "rejected" ELSE "fulfilled",
                             ![k].response = response,
                             ![k].result = result]
                    /\ prefillData' = IF call = AGGREGATE
                                      THEN ThenCallback(prefillData, result)
                                      ELSE prefillData
    /\ UNCHANGED <<pairVars, storeVars, call, query, collection, existingEdits, pc, i,
                   apiCalls, relationReads, classified, parseCall>>

\* Mutant: the callback looks the field up in existingEdits again before it
\* writes
SettleLookup_RecheckEdits ==
    /\ pc # "loop"
    /\ \E k \in 1..Len(lookupPromises) :
          /\ lookupPromises[k].status = "pending"
          /\ \E response \in ResponsesFor(k) :
                LET result == resolveRelationalLookup(lookupPromises[k].param, response)
                IN  /\ lookupPromises' =
                          [lookupPromises EXCEPT
                             ![k].status = IF result.kind = "throw"
                                           THEN "rejected" ELSE "fulfilled",
                             ![k].response = response,
                             ![k].result = result]
                    /\ prefillData' =
                          IF /\ call = AGGREGATE
                             /\ lookupPromises[k].param.field \notin DOMAIN existingEdits
                          THEN ThenCallback(prefillData, result)
                          ELSE prefillData
    /\ UNCHANGED <<pairVars, storeVars, call, query, collection, existingEdits,
                   pc, i, apiCalls, relationReads, classified, parseCall>>

\* A pending lookup settles: the item query service answers (or the call had
\* returned null without a request), resolveRelationalLookup returns, and the
\* aggregator's .then callback runs. No callback runs while the synchronous
\* loop is running.
SettleLookup ==
    /\ pc # "loop"
    /\ \E k \in 1..Len(lookupPromises) :
          /\ lookupPromises[k].status = "pending"
          /\ \E response \in ResponsesFor(k) :
                LET result == resolveRelationalLookup(lookupPromises[k].param, response)
                IN  /\ lookupPromises' =
                          [lookupPromises EXCEPT
                             ![k].status = IF result.kind = "throw"
                                           THEN "rejected" ELSE "fulfilled",
                             ![k].response = response,
                             ![k].result = result]
                    /\ prefillData' = IF call = AGGREGATE
                                      THEN ThenCallback(prefillData, result)
                                      ELSE prefillData
    /\ UNCHANGED <<pairVars, storeVars, call, query, collection, existingEdits, pc, i,
                   apiCalls, relationReads, classified, parseCall>>

\* Mutant: the caller resumes as soon as one promise has settled
\* (Promise.race), or at once when there is none
Finish_OnFirstSettled ==
    /\ pc = "awaiting"
    /\ \/ lookupPromises = << >>
       \/ \E k \in 1..Len(lookupPromises) : lookupPromises[k].status # "pending"
    /\ pc' = IF \E k \in 1..Len(lookupPromises) : lookupPromises[k].status = "rejected"
             THEN "raised" ELSE "returned"
    /\ UNCHANGED <<pairVars, storeVars, call, query, collection, existingEdits, i,
                   prefillData, lookupPromises, apiCalls, relationReads,
                   classified, parseCall>>

\* lines 181-183: await Promise.all(...) resumes; the call returns prefillData,
\* or raises the rejection of a promise
Finish ==
    /\ pc = "awaiting"
    /\ PromiseAllSettled(lookupPromises)
    /\ pc' = IF \E k \in 1..Len(lookupPromises) : lookupPromises[k].status = "rejected"
             THEN "raised" ELSE "returned"
    /\ UNCHANGED <<pairVars, storeVars, call, query, collection, existingEdits, i, prefillData,
                   lookupPromises, apiCalls, relationReads, classified, parseCall>>

Next ==
    \/ SkipEdited
    \/ SkipRejected
    \/ WriteDirect
    \/ ScheduleLookup
    \/ AwaitAll
    \/ CallResolve
    \/ CallParse
    \/ SettleLookup
    \/ Finish

Spec == Init /\ [][Next]_vars

\* The steps the JavaScript engine takes on its own: the synchronous loop runs
\* to completion and a settled Promise.all resumes the awaiting caller
EngineStep ==
    SkipEdited \/ SkipRejected \/ WriteDirect \/ ScheduleLookup \/ AwaitAll \/ Finish

\* The locals of the aggregator call the variables hold
Focused ==
    [query |-> query, existingEdits |-> existingEdits, pc |-> pc, i |-> i,
     prefillData |-> prefillData, lookupPromises |-> lookupPromises,
     apiCalls |-> apiCalls, classified |-> classified, parseCall |-> parseCall]

\* The hint sets and edits of two aggregator calls made by one page
PairQueries ==
    { << [key |-> K_p_a, value |-> "ABC"] >>,
      << [key |-> K_s, value |-> "XYZ"], [key |-> K_p_a, value |-> "ABC"] >>,
      << [key |-> K_p_a, value |-> "XYZ"], [key |-> K_bookmark, value |-> "ABC"] >>,
      << [key |-> K_p, value |-> "ABC"] >> }

PairEdits == { EmptyObject, [f \in { K_p } |-> "edited"] }

\* Two calls of resolveUrlPrefillData have been made; the first is entered
PairInit ==
    /\ call = AGGREGATE
    /\ collection = "cases"
    /\ query \in PairQueries
    /\ existingEdits \in PairEdits
    /\ pc = "loop"
    /\ i = 0
    /\ prefillData = EmptyObject
    /\ lookupPromises = << >>
    /\ apiCalls = << >>
    /\ relationReads = {}
    /\ classified = {}
    /\ parseCall = NoParse
    /\ focus = 1
    /\ other \in { NewCall(q, e) : q \in PairQueries, e \in PairEdits }
    /\ measurements = << >>
    /\ saved = << >>

\* The engine goes over to the other call: it enters it, or runs one of its
\* continuations. JavaScript runs a call to its next await, so the call that
\* is left is suspended at line 181 or has returned.
SwitchCall ==
    /\ call = AGGREGATE
    /\ other.pc # "none"
    /\ pc # "loop"
    /\ focus' = 3 - focus
    /\ other' = Focused
    /\ query' = other.query
    /\ existingEdits' = other.existingEdits
    /\ pc' = other.pc
    /\ i' = other.i
    /\ prefillData' = other.prefillData
    /\ lookupPromises' = other.lookupPromises
    /\ apiCalls' = other.apiCalls
    /\ classified' = other.classified
    /\ parseCall' = other.parseCall
    /\ UNCHANGED <<storeVars, call, collection, relationReads>>

PairNext == EngineStep \/ SettleLookup \/ SwitchCall

\* Two aggregator calls, interleaved at their awaits or one after the other
PairSpec == PairInit /\ [][PairNext]_vars

\* The caller puts the owning field of a resolution in flight into the object
\* it passed as existingEdits (the user edits the field while the aggregator
\* is suspended at line 181)
CallerEdit ==
    /\ call = AGGREGATE
    /\ pc = "awaiting"
    /\ \E k \in 1..Len(lookupPromises) :
          /\ lookupPromises[k].sent
          /\ lookupPromises[k].status = "pending"
          /\ lookupPromises[k].param.field \notin DOMAIN existingEdits
          /\ existingEdits' = Put(existingEdits, lookupPromises[k].param.field, "edited")
    /\ UNCHANGED <<pairVars, storeVars, call, query, collection, pc, i,
                   prefillData, lookupPromises, apiCalls, relationReads,
                   classified, parseCall>>

\* The hint sets of the calls followed to their end: a direct key, a rejected
\* key and two dotted keys whose resolutions send a request
FairKeys == { K_s, K_s_a, K_p_a, K_all_a }

FairQueries ==
    { q \in UNION { [1..n -> [key : FairKeys, value : { "ABC" }]] : n \in 0..MaxHints } :
        \A a, b \in 1..Len(q) : a # b => q[a].key # q[b].key }

FairEdits == { EmptyObject, [f \in { K_p } |-> "edited"] }

FairInit ==
    /\ call = AGGREGATE
    /\ collection = "cases"
    /\ query \in FairQueries
    /\ existingEdits \in FairEdits
    /\ pc = "loop"
    /\ i = 0
    /\ prefillData = EmptyObject
    /\ lookupPromises = << >>
    /\ apiCalls = << >>
    /\ relationReads = {}
    /\ classified = {}
    /\ parseCall = NoParse
    /\ focus = 1
    /\ other = NoCall
    /\ measurements = << >>
    /\ saved = << >>

FairNext == EngineStep \/ SettleLookup

EditInit == FairInit

EditNext == EngineStep \/ SettleLookup \/ CallerEdit

\* Aggregator calls whose caller edits fields while requests are in flight
EditSpec == EditInit /\ [][EditNext]_vars

\* Every request the item query service has received is answered or fails,
\* and the engine does not stall
FairSpec ==
    FairInit /\ [][FairNext]_vars /\ WF_vars(EngineStep) /\ WF_vars(SettleLookup)

----------------------------------------------------------------------------
(* Latency store (app/src/stores/latency.ts) *)

\* state.maxMeasurements
maxMeasurements == 100

\* Mutant: the first k elements are kept
Slice_FromStart(s, k) == SubSeq(s, 1, IF k < Len(s) THEN k ELSE Len(s))

\* Array.prototype.slice(-k): the last k elements, all of them when there are
\* fewer; slice(-0) is slice(0), the whole array
Slice(s, k) ==
    IF k = 0 \/ k >= Len(s) THEN s
    ELSE SubSeq(s, Len(s) - k + 1, Len(s))

\* The n-th measurement handed to save since the last clear
Measurement(n) == [timestamp |-> n, latency |-> 20 + (n % 4) * 15]

\* getters.latestMeasurements
latestMeasurements == Slice(measurements, 10)

\* No prefill function is under call
LatencyInit ==
    /\ call = "latencyStore"
    /\ collection = "cases"
    /\ query = << >>
    /\ existingEdits = EmptyObject
    /\ pc = "returned"
    /\ i = 0
    /\ prefillData = EmptyObject
    /\ lookupPromises = << >>
    /\ apiCalls = << >>
    /\ relationReads = {}
    /\ classified = {}
    /\ parseCall = NoParse
    /\ focus = 1
    /\ other = NoCall
    /\ measurements = << >>
    /\ saved = << >>

\* Mutant: the list is never cut
save_NoTrim ==
    /\ Len(saved) < MaxSaves
    /\ LET measurement == Measurement(Len(saved) + 1)
       IN  /\ measurements' = Append(measurements, measurement)
           /\ saved' = Append(saved, measurement)
    /\ UNCHANGED <<prefillVars, pairVars>>

\* actions.save(measurement)
save ==
    /\ Len(saved) < MaxSaves
    /\ LET measurement == Measurement(Len(saved) + 1)
           pushed      == Append(measurements, measurement)
       IN  /\ measurements' = IF Len(pushed) > maxMeasurements
                              THEN Slice(pushed, maxMeasurements)
                              ELSE pushed
           /\ saved' = Append(saved, measurement)
    /\ UNCHANGED <<prefillVars, pairVars>>

\* actions.clear()
clear ==
    /\ measurements' = << >>
    /\ saved' = << >>
    /\ UNCHANGED <<prefillVars, pairVars>>

LatencyNext == save \/ clear

LatencySpec == LatencyInit /\ [][LatencyNext]_vars

----------------------------------------------------------------------------
(* Vocabulary of the properties, defined on the inputs and the observable    *)
(* state, not through the operators of the model.                            *)

Lookups == 1..Len(lookupPromises)

HintIdx == 1..Len(query)

Returned == call = AGGREGATE /\ pc = "returned"

HasDot(key) == \E j \in 1..Len(key) : key[j] = "."

\* The characters before the first dot (the whole key without a dot)
FirstSegment(key) ==
    IF HasDot(key)
    THEN LET j == CHOOSE n \in 1..Len(key) :
                     key[n] = "." /\ \A m \in 1..(n - 1) : key[m] # "."
         IN  SubSeq(key, 1, j - 1)
    ELSE key

ReservedNames ==
    { << "b", "o", "o", "k", "m", "a", "r", "k" >>,
      << "v", "e", "r", "s", "i", "o", "n" >>,
      << "a", "l", "l" >>,
      << "a", "r", "c", "h", "i", "v", "e", "d" >> }

\* The owning field of the hint is a key of existingEdits
OwnerEdited(key) == FirstSegment(key) \in DOMAIN existingEdits

\* The hint is a direct hint: no dot, not reserved
IsDirectHint(key) == ~HasDot(key) /\ key \notin ReservedNames

HasEntry(k) == lookupPromises[k].result.kind = "entry"

----------------------------------------------------------------------------
(* C1 *)

\* C1 (as claimed): in the map the aggregator returns, no key of existingEdits
\* is a key of the map.
C1_EditedFieldsExcluded ==
    Returned => \A f \in DOMAIN existingEdits : f \notin DOMAIN prefillData

----------------------------------------------------------------------------
(* C2 *)

\* C2: the aggregator has returned only when none of the lookups it scheduled
\* is still pending, and once it has returned the result map is not written.
C2_ReturnsAfterAllLookups ==
    /\ [](Returned => \A k \in Lookups : lookupPromises[k].status # "pending")
    /\ [][Returned => prefillData' = prefillData]_vars

\* Witness of C2: a call has returned after two lookups, whose requests had
\* been sent, were fulfilled.
C2_Witness ==
    /\ Returned
    /\ Len(lookupPromises) >= 2
    /\ \A k \in Lookups :
          lookupPromises[k].sent /\ lookupPromises[k].status = "fulfilled"

----------------------------------------------------------------------------
(* C3 *)

\* C3 (as claimed): no two resolutions scheduled by one call have the same
\* owning field.
C3_WritersOnDistinctKeys ==
    call = AGGREGATE =>
        \A k, l \in Lookups :
            k # l => lookupPromises[k].param.field # lookupPromises[l].param.field

\* The dotted keys consumed so far have pairwise distinct first segments
DistinctFirstSegments ==
    \A a, b \in 1..i :
        (a # b /\ HasDot(query[a].key) /\ HasDot(query[b].key))
            => FirstSegment(query[a].key) # FirstSegment(query[b].key)

\* The hints consumed so far whose key is dotted
DottedConsumed == { n \in 1..i : HasDot(query[n].key) }

\* C3 (amended): every scheduled resolution owns the first segment of a dotted
\* key of the hint set and looks up its value by its second segment, there are
\* at most as many resolutions as dotted keys, and when the dotted keys have
\* pairwise distinct first segments no two scheduled resolutions have the same
\* owning field.
C3_DistinctSegmentsDistinctKeys ==
    call = AGGREGATE =>
        /\ \A k \in Lookups :
              \E n \in DottedConsumed :
                  /\ lookupPromises[k].param.field = FirstSegment(query[n].key)
                  /\ lookupPromises[k].param.lookupValue = query[n].value
        /\ Len(lookupPromises) <= Cardinality(DottedConsumed)
        /\ DistinctFirstSegments => C3_WritersOnDistinctKeys

\* Witness of C3: two resolutions with different owning fields are in flight
\* together.
C3_Witness ==
    /\ call = AGGREGATE
    /\ Len(lookupPromises) = 2
    /\ lookupPromises[1].param.field # lookupPromises[2].param.field
    /\ \A k \in Lookups :
          lookupPromises[k].sent /\ lookupPromises[k].status = "pending"

----------------------------------------------------------------------------
(* C4 *)

\* C4 (as claimed): the returned map holds, for every resolution that returned
\* an entry, that entry's value under its field, whatever the order in which
\* the resolutions completed.
C4_EverySuccessInResult ==
    Returned =>
        \A k \in Lookups :
            HasEntry(k) =>
                /\ lookupPromises[k].param.field \in DOMAIN prefillData
                /\ prefillData[lookupPromises[k].param.field]
                      = lookupPromises[k].result.value

\* No other resolution returned an entry for the field of resolution k
SoleSuccess(k) ==
    \A l \in Lookups :
        (l # k /\ HasEntry(l))
            => lookupPromises[l].param.field # lookupPromises[k].param.field

\* C4 (amended): the returned map holds the entry of every successful
\* resolution whose owning field no other successful resolution shares, in
\* every completion order; and each successful resolution writes its value
\* under its field in the step in which it completes, leaving the other keys
\* as they were (so among resolutions sharing a field the last to complete
\* decides the value).
C4_SoleSuccessInResult ==
    /\ [](Returned =>
            \A k \in Lookups :
                (HasEntry(k) /\ SoleSuccess(k)) =>
                    /\ lookupPromises[k].param.field \in DOMAIN prefillData
                    /\ prefillData[lookupPromises[k].param.field]
                          = lookupPromises[k].result.value)
    /\ [][\A k \in Lookups :
            ( /\ call = AGGREGATE
              /\ lookupPromises[k].status = "pending"
              /\ lookupPromises'[k].status = "fulfilled"
              /\ lookupPromises'[k].result.kind = "entry" )
                => LET f == lookupPromises[k].param.field
                   IN  /\ DOMAIN prefillData' = DOMAIN prefillData \cup {f}
                       /\ prefillData'[f] = lookupPromises'[k].result.value
                       /\ \A g \in DOMAIN prefillData \ {f} :
                             prefillData'[g] = prefillData[g]]_vars

\* Witness of C4: a call has returned after two resolutions on different
\* fields both returned an entry.
C4_Witness ==
    /\ Returned
    /\ Len(lookupPromises) = 2
    /\ HasEntry(1) /\ HasEntry(2)
    /\ lookupPromises[1].param.field # lookupPromises[2].param.field
    /\ lookupPromises[1].result.value # lookupPromises[2].result.value

----------------------------------------------------------------------------
(* C5 *)

\* C5: no call raises, and a returned map has a key for every direct hint
\* whose owning field is not a key of existingEdits.
C5_NeverRaises ==
    /\ pc # "raised"
    /\ Returned =>
          \A n \in HintIdx :
              (IsDirectHint(query[n].key) /\ ~OwnerEdited(query[n].key))
                  => query[n].key \in DOMAIN prefillData

\* Witness of C5: a call has returned its direct hint although the item query
\* service failed.
C5_Witness ==
    /\ Returned
    /\ \E k \in Lookups : lookupPromises[k].response.kind = "error"
    /\ \E n \in HintIdx :
          /\ IsDirectHint(query[n].key)
          /\ query[n].key \in DOMAIN prefillData

----------------------------------------------------------------------------
(* C6 *)

\* C6 (as claimed): a hint whose owning field is a key of existingEdits is
\* skipped before classification and resolution: it is not handed to the
\* classifier, the relation directory is not consulted for its field and no
\* resolution (hence no request to the item query service) is made for it.
C6_EditedHintsSkipped ==
    call = AGGREGATE =>
        \A n \in HintIdx :
            OwnerEdited(query[n].key) =>
                /\ query[n].key \notin classified
                /\ \A r \in relationReads : r.field # FirstSegment(query[n].key)
                /\ \A k \in Lookups :
                      lookupPromises[k].param.field # FirstSegment(query[n].key)

----------------------------------------------------------------------------
(* C7 *)

\* The hints the aggregator has not skipped: the owning field is empty or is
\* not a key of existingEdits
Kept(key) == FirstSegment(key) = << >> \/ ~OwnerEdited(key)

\* field -> value of the direct hints the aggregator kept
DirectPairs ==
    { << query[n].key, query[n].value >> :
        n \in { m \in HintIdx : IsDirectHint(query[m].key) /\ Kept(query[m].key) } }

\* field -> primary key of the resolutions, of hints the aggregator kept, that
\* returned an entry
ResolvedPairs ==
    { << lookupPromises[k].param.field, lookupPromises[k].result.value >> :
        k \in { l \in Lookups :
                  HasEntry(l) /\ Kept(lookupPromises[l].param.field) } }

MapPairs(obj) == { << f, obj[f] >> : f \in DOMAIN obj }

\* C7 (as claimed): the returned map is exactly the union of the direct
\* hints' field -> value and the successful resolutions' field -> primary key.
C7_ExactUnion ==
    Returned => MapPairs(prefillData) = DirectPairs \cup ResolvedPairs

KeptDirectFields == { pr[1] : pr \in DirectPairs }

ResolvedFields == { pr[1] : pr \in ResolvedPairs }

\* C7 (amended): the keys of the returned map are exactly the fields of the
\* direct hints the aggregator kept and of the resolutions that returned an
\* entry; a key some resolution resolved carries the primary key of one of
\* them (the only one, when there is only one), any other key the value of
\* its direct hint; an empty hint set gives an empty map.
C7_KeysAndValues ==
    Returned =>
        /\ DOMAIN prefillData = KeptDirectFields \cup ResolvedFields
        /\ \A f \in DOMAIN prefillData :
              IF f \in ResolvedFields
              THEN << f, prefillData[f] >> \in ResolvedPairs
              ELSE \E n \in HintIdx :
                      query[n].key = f /\ query[n].value = prefillData[f]
        /\ query = << >> => prefillData = EmptyObject

\* Witness of C7: a returned map with a direct value and a resolved primary
\* key, from a hint set of two.
C7_Witness ==
    /\ Returned
    /\ Len(query) = 2
    /\ Cardinality(DOMAIN prefillData) = 2
    /\ KeptDirectFields # {}
    /\ ResolvedFields # {}

----------------------------------------------------------------------------
(* C8 *)

\* C8 (as claimed): no reserved name is a key of the returned map.
C8_NoReservedKey ==
    Returned => \A r \in ReservedNames : r \notin DOMAIN prefillData

\* C8 (amended): a reserved name is a key of the returned map only as the
\* owning field of a dotted key whose resolution returned an entry, and then
\* carries a resolved primary key; a reserved key itself is never a hint.
C8_ReservedOnlyResolved ==
    Returned =>
        \A r \in ReservedNames :
            r \in DOMAIN prefillData =>
                \E k \in Lookups :
                    /\ HasEntry(k)
                    /\ lookupPromises[k].param.field = r
                    /\ lookupPromises[k].result.value = prefillData[r]

\* Witness of C8: a call whose hint set holds a reserved key and a direct hint
\* has returned the direct hint only.
C8_Witness ==
    /\ Returned
    /\ Len(query) = 2
    /\ \E n \in HintIdx : query[n].key \in ReservedNames
    /\ Cardinality(DOMAIN prefillData) = 1
    /\ DOMAIN prefillData \cap ReservedNames = {}

----------------------------------------------------------------------------
(* C9 *)

\* One of the four cases of C9 holds of a settled lookup: no related
\* collection, no primary-key field, zero items, a failed request
NullCase(lookup) ==
    \/ lookup.param.relatedCollection = NULL
    \/ \A r \in PrimaryKeys : r.collection # lookup.param.relatedCollection
    \/ lookup.response.kind = "items" /\ lookup.response.items = << >>
    \/ lookup.response.kind = "error"

\* C9: in each of the four cases the resolver returns null, and the step in
\* which such a resolution completes leaves the result map as it was.
C9_NullInEachCase ==
    /\ [](\A k \in Lookups :
            (lookupPromises[k].status # "pending" /\ NullCase(lookupPromises[k]))
                => /\ lookupPromises[k].status = "fulfilled"
                   /\ lookupPromises[k].result.kind = "null")
    /\ [][\A k \in Lookups :
            ( /\ lookupPromises[k].status = "pending"
              /\ lookupPromises'[k].status # "pending"
              /\ NullCase(lookupPromises'[k]) )
                => prefillData' = prefillData]_vars

\* Witness of C9: a call has returned an empty map after one resolution found
\* no primary-key field and another one's request failed.
C9_Witness ==
    /\ Returned
    /\ Len(lookupPromises) = 2
    /\ \E k \in Lookups :
          \A r \in PrimaryKeys :
              r.collection # lookupPromises[k].param.relatedCollection
    /\ \E k \in Lookups : lookupPromises[k].response.kind = "error"
    /\ prefillData = EmptyObject

----------------------------------------------------------------------------
(* C10 *)

\* C10: when the related collection has a primary-key field and the request
\* returned at least one item, the resolver returns an entry for param.field
\* whose value is the primary-key value of the first item.
C10_FirstItemPrimaryKey ==
    \A k \in Lookups :
        \A r \in PrimaryKeys :
            ( /\ lookupPromises[k].status # "pending"
              /\ r.collection = lookupPromises[k].param.relatedCollection
              /\ lookupPromises[k].response.kind = "items"
              /\ Len(lookupPromises[k].response.items) >= 1 )
                => /\ lookupPromises[k].result.kind = "entry"
                   /\ lookupPromises[k].result.field = lookupPromises[k].param.field
                   /\ lookupPromises[k].result.value
                         = lookupPromises[k].response.items[1][r.field]

\* Witness of C10: a direct call of the resolver on a collection with a custom
\* primary key has settled on two items with different primary keys.
C10_Witness ==
    /\ call = RESOLVE
    /\ Len(lookupPromises) = 1
    /\ lookupPromises[1].status = "fulfilled"
    /\ lookupPromises[1].param.relatedCollection = "users"
    /\ Len(lookupPromises[1].response.items) = 2
    /\ lookupPromises[1].response.items[1] # lookupPromises[1].response.items[2]
    /\ lookupPromises[1].result.kind = "entry"

----------------------------------------------------------------------------
(* Vocabulary of the classifier properties *)

\* parseQueryParam has been called and has returned
Parsed == parseCall.result.kind # "none"

\* A direct call of parseQueryParam has returned
ParseReturned == call = PARSE /\ pc = "returned"

\* The characters after the first dot
AfterFirstDot(key) ==
    LET j == CHOOSE n \in 1..Len(key) :
                 key[n] = "." /\ \A m \in 1..(n - 1) : key[m] # "."
    IN  SubSeq(key, j + 1, Len(key))

\* The characters between the first dot and the second (or the end)
SecondSegment(key) == FirstSegment(AfterFirstDot(key))

----------------------------------------------------------------------------
(* C11 *)

\* C11: for every reserved key, every value and every collection,
\* parseQueryParam returns null, and the relations store is not read.
C11_ReservedRejected ==
    (Parsed /\ parseCall.key \in ReservedNames) =>
        /\ parseCall.result.kind = "null"
        /\ parseCall.result.consulted = {}
        /\ call = PARSE => relationReads = {}

\* Witness of C11: parseQueryParam('all', 'XYZ', 'cases') has returned, all
\* being a relational field of cases.
C11_Witness ==
    /\ ParseReturned
    /\ parseCall.key = << "a", "l", "l" >>
    /\ parseCall.value = "XYZ"
    /\ collection = "cases"
    /\ \E r \in Relations : r.collection = collection /\ r.field = parseCall.key

----------------------------------------------------------------------------
(* C12 *)

\* The related collections the relations store holds for a field
RelatedCollections(coll, field) ==
    { r.related_collection :
        r \in { x \in Relations : /\ x.collection = coll
                                  /\ x.field = field
                                  /\ x.related_collection # NULL } }

\* The key made of the first two segments of a dotted key
FirstTwoSegments(key) == FirstSegment(key) \o << "." >> \o SecondSegment(key)

\* C12: what parseQueryParam returns for a dotted key is what it returns for
\* the key cut after its second segment, with the same value and collection;
\* and when the first segment is a field with a relation to a collection (and
\* the second segment is not empty) it is a relational parameter whose field
\* is the first segment and whose lookup field is the second.
C12_FirstTwoSegmentsOnly ==
    (Parsed /\ HasDot(parseCall.key)) =>
        LET a == FirstSegment(parseCall.key)
            b == SecondSegment(parseCall.key)
        IN  /\ parseCall.result
                  = parseQueryParam(FirstTwoSegments(parseCall.key),
                                    parseCall.value, collection)
            /\ (a # << >> /\ b # << >> /\ RelatedCollections(collection, a) # {})
                  => /\ parseCall.result.kind = "relational"
                     /\ parseCall.result.field = a
                     /\ parseCall.result.lookupField = b
                     /\ parseCall.result.lookupValue = parseCall.value
                     /\ parseCall.result.relatedCollection
                           \in RelatedCollections(collection, a)

\* Witness of C12: parseQueryParam has returned a relational parameter for a
\* key of four segments.
C12_Witness ==
    /\ ParseReturned
    /\ parseCall.key = << "p", ".", "a", ".", "x", ".", "n" >>
    /\ parseCall.result.kind = "relational"
    /\ parseCall.result.lookupField = << "a" >>

----------------------------------------------------------------------------
(* C13 *)

\* C13: parseQueryParam returns null for every dotted key whose first segment
\* has no relation on the collection or a relation without related
\* collection; every relational parameter it returns, and every parameter the
\* aggregator hands to resolveRelationalLookup, has a related collection.
C13_RelatedCollectionNeverNull ==
    /\ (Parsed /\ HasDot(parseCall.key)
               /\ RelatedCollections(collection, FirstSegment(parseCall.key)) = {})
          => parseCall.result.kind = "null"
    /\ (Parsed /\ parseCall.result.kind = "relational")
          => parseCall.result.relatedCollection # NULL
    /\ call = AGGREGATE =>
          \A k \in Lookups : lookupPromises[k].param.relatedCollection # NULL

\* Witness of C13: parseQueryParam has read a relation without related
\* collection for the first segment of its key, and returned.
C13_Witness ==
    /\ ParseReturned
    /\ parseCall.key = << "m", ".", "a" >>
    /\ \E r \in Relations :
          /\ r.collection = collection
          /\ r.field = << "m" >>
          /\ r.related_collection = NULL
    /\ relationReads = { [collection |-> collection, field |-> << "m" >>] }

----------------------------------------------------------------------------
(* C14 *)

\* C14: for every dotted key whose first or second segment is empty,
\* parseQueryParam returns null; it does so without reading the relations
\* store, hence whatever the store holds.
C14_EmptySegmentRejected ==
    ( /\ Parsed
      /\ HasDot(parseCall.key)
      /\ \/ FirstSegment(parseCall.key) = << >>
         \/ SecondSegment(parseCall.key) = << >> )
        => /\ parseCall.result.kind = "null"
           /\ parseCall.result.consulted = {}
           /\ call = PARSE => relationReads = {}

\* Witness of C14: parseQueryParam has returned for a key whose first segment
\* is a relational field of the collection and whose second segment is empty.
C14_Witness ==
    /\ ParseReturned
    /\ parseCall.key = << "p", ".", ".", "a" >>
    /\ RelatedCollections(collection, << "p" >>) # {}

----------------------------------------------------------------------------
(* C15 *)

\* C15: for every key without a dot that is not reserved, parseQueryParam
\* returns a direct parameter whose field is the key and whose value is the
\* value it was given, and the relations store is not read.
C15_DirectPassThrough ==
    (Parsed /\ ~HasDot(parseCall.key) /\ parseCall.key \notin ReservedNames)
        => /\ parseCall.result.kind = "direct"
           /\ parseCall.result.field = parseCall.key
           /\ parseCall.result.value = parseCall.value
           /\ parseCall.result.consulted = {}
           /\ call = PARSE => relationReads = {}

\* Witness of C15: parseQueryParam has returned for the undotted name of a
\* relational field and the string form of a number.
C15_Witness ==
    /\ ParseReturned
    /\ parseCall.key = << "p" >>
    /\ parseCall.value = "42"
    /\ RelatedCollections(collection, << "p" >>) # {}

----------------------------------------------------------------------------
(* C16 *)

\* C16 (as claimed): every parameter parseQueryParam returns, for every key
\* (the empty string included), value and collection, has a non-empty field;
\* and every key of the map the aggregator returns is a non-empty string.
C16_FieldNeverEmpty ==
    /\ (Parsed /\ parseCall.result.kind \in { "direct", "relational" })
          => parseCall.result.field # << >>
    /\ Returned => \A f \in DOMAIN prefillData : f # << >>

----------------------------------------------------------------------------
(* C17 *)

\* C17: no step of a call changes existingEdits: whatever the hint set and
\* the order in which the resolutions complete, existingEdits has the keys and
\* values it had before the call.
C17_ExistingEditsUnchanged ==
    [][existingEdits' = existingEdits]_vars

\* Witness of C17: a call given a non-empty existingEdits has returned a map
\* holding a direct value and a resolved primary key.
C17_Witness ==
    /\ Returned
    /\ existingEdits # EmptyObject
    /\ \E k \in Lookups : HasEntry(k)
    /\ \E n \in HintIdx :
          IsDirectHint(query[n].key) /\ query[n].key \in DOMAIN prefillData

----------------------------------------------------------------------------
(* C18 *)

\* The resolutions on field f that have returned an entry
EntriesOn(f) ==
    { k \in Lookups : lookupPromises[k].param.field = f /\ HasEntry(k) }

\* C18: while the synchronous pass runs no resolution has completed; once the
\* pass has consumed a direct hint f that it did not skip, the map holds the
\* direct value under f as long as no resolution on f has returned an entry
\* (also when it returned null), and the resolved primary key once one has,
\* whether the dotted key on f comes before or after the direct key. So it is
\* in the returned map.
C18_DirectThenResolved ==
    call = AGGREGATE =>
        /\ pc = "loop" =>
              \A k \in Lookups : lookupPromises[k].status = "pending"
        /\ \A n \in 1..i :
              (IsDirectHint(query[n].key) /\ Kept(query[n].key)) =>
                  LET f == query[n].key
                  IN  /\ f \in DOMAIN prefillData
                      /\ EntriesOn(f) = {} => prefillData[f] = query[n].value
                      /\ EntriesOn(f) # {} =>
                            \E k \in EntriesOn(f) :
                                prefillData[f] = lookupPromises[k].result.value

\* Witness of C18: the hint set holds the dotted key p.a before the direct key
\* p, and the call has returned the resolved primary key under p.
C18_Witness ==
    /\ Returned
    /\ Len(query) = 2
    /\ query[1].key = << "p", ".", "a" >>
    /\ query[2].key = << "p" >>
    /\ EntriesOn(<< "p" >>) = { 1 }
    /\ prefillData[<< "p" >>] = lookupPromises[1].result.value
    /\ prefillData[<< "p" >>] # query[2].value

\* The direct value stays when the resolution returns null: the hint set holds
\* the direct key p before the dotted key p.a, whose request failed.
C18_WitnessNull ==
    /\ Returned
    /\ Len(query) = 2
    /\ query[1].key = << "p" >>
    /\ query[2].key = << "p", ".", "a" >>
    /\ Len(lookupPromises) = 1
    /\ lookupPromises[1].result.kind = "null"
    /\ prefillData[<< "p" >>] = query[1].value

----------------------------------------------------------------------------
(* C19 *)

\* The related collection of resolution k is not null and has a primary-key
\* field
NeedsQuery(k) ==
    /\ lookupPromises[k].param.relatedCollection # NULL
    /\ \E r \in PrimaryKeys :
          r.collection = lookupPromises[k].param.relatedCollection

\* The hints the aggregator did not skip and that are classified relational:
\* a dotted key, two non-empty segments, a relation to a collection
RelationalHints ==
    { n \in HintIdx :
        /\ HasDot(query[n].key)
        /\ Kept(query[n].key)
        /\ FirstSegment(query[n].key) # << >>
        /\ SecondSegment(query[n].key) # << >>
        /\ RelatedCollections(collection, FirstSegment(query[n].key)) # {} }

\* C19: at every moment of a call, also after a request has failed, the item
\* query service has received exactly one request for each scheduled
\* resolution whose related collection is not null and has a primary-key
\* field, and none for the others; each request asks the related collection
\* for one item whose lookup field equals the lookup value. In an aggregator
\* call there are at most as many requests as non-skipped relational hints.
C19_OneQueryPerResolution ==
    /\ Len(apiCalls) = Cardinality({ k \in Lookups : NeedsQuery(k) })
    /\ \A k \in Lookups :
          IF NeedsQuery(k)
          THEN \E j \in 1..Len(apiCalls) :
                  /\ apiCalls[j].path = lookupPromises[k].param.relatedCollection
                  /\ apiCalls[j].filterField = lookupPromises[k].param.lookupField
                  /\ apiCalls[j].filterEq = lookupPromises[k].param.lookupValue
                  /\ apiCalls[j].limit = 1
          ELSE /\ lookupPromises[k].response.kind = "none"
               /\ (lookupPromises[k].status # "pending"
                      => lookupPromises[k].result.kind = "null")
    /\ call = AGGREGATE => Len(apiCalls) <= Cardinality(RelationalHints)

\* Witness of C19: a call has returned after scheduling two resolutions, one
\* on a collection without primary-key field and one whose request failed,
\* and the item query service has received one request.
C19_Witness ==
    /\ Returned
    /\ Len(lookupPromises) = 2
    /\ \E k \in Lookups : ~NeedsQuery(k)
    /\ \E k \in Lookups : lookupPromises[k].response.kind = "error"
    /\ Len(apiCalls) = 1

----------------------------------------------------------------------------
(* C20 *)

\* C20: when the aggregator starts to wait, every hint has been consumed,
\* every relational hint it kept has its resolution scheduled and every
\* resolution that needs a request has sent it; no resolution completes, and
\* none writes into the map, before that.
C20_QueriesIssuedBeforeWaiting ==
    call = AGGREGATE =>
        /\ pc # "loop" =>
              /\ i = Len(query)
              /\ Len(lookupPromises) = Cardinality(RelationalHints)
              /\ Len(apiCalls) = Cardinality({ k \in Lookups : NeedsQuery(k) })
        /\ (\E k \in Lookups : lookupPromises[k].status # "pending")
              => pc # "loop"
        /\ pc = "loop" =>
              \A f \in DOMAIN prefillData :
                  \E n \in 1..i :
                      /\ IsDirectHint(query[n].key)
                      /\ query[n].key = f
                      /\ query[n].value = prefillData[f]

\* Witness of C20: the aggregator is waiting, both of its resolutions have
\* sent their request and neither has completed.
C20_Witness ==
    /\ call = AGGREGATE
    /\ pc = "awaiting"
    /\ Len(lookupPromises) = 2
    /\ Len(apiCalls) = 2
    /\ \A k \in Lookups : lookupPromises[k].status = "pending"
    /\ prefillData = EmptyObject

----------------------------------------------------------------------------
(* C21 *)

\* The request of resolution k has been sent and has neither returned nor
\* failed
Outstanding(k) ==
    lookupPromises[k].sent /\ lookupPromises[k].status = "pending"

\* C21: when every request sent is eventually answered or fails, every
\* aggregator call eventually returns; and as long as a request of the call
\* is outstanding the call has neither returned nor raised.
C21_ReturnsOnceAllAnswered ==
    /\ (call = AGGREGATE) ~> Returned
    /\ [](call = AGGREGATE =>
            ((\E k \in Lookups : Outstanding(k)) => pc \in { "loop", "awaiting" }))

\* Witness of C21: a call has returned after one of its requests failed and
\* the other was answered with an item.
C21_Witness ==
    /\ Returned
    /\ Len(apiCalls) = 2
    /\ \E k \in Lookups : lookupPromises[k].response.kind = "error"
    /\ \E k \in Lookups : HasEntry(k)
    /\ \A k \in Lookups : ~Outstanding(k)

----------------------------------------------------------------------------
(* C22 *)

\* The inputs, locals and requests of call c of the two
CallFrame(c) == IF focus = c THEN Focused ELSE other

TwoCalls == call = AGGREGATE /\ other.pc # "none"

\* The direct hints of a call's own hint set that its own edits do not own
OwnDirectHints(fr) ==
    { n \in 1..Len(fr.query) :
        /\ IsDirectHint(fr.query[n].key)
        /\ \/ fr.query[n].key = << >>
           \/ fr.query[n].key \notin DOMAIN fr.existingEdits }

\* The resolutions of a call that returned an entry from their own response
OwnEntries(fr) ==
    { k \in 1..Len(fr.lookupPromises) :
        /\ fr.lookupPromises[k].response.kind = "items"
        /\ fr.lookupPromises[k].response.items # << >>
        /\ fr.lookupPromises[k].result.kind = "entry" }

\* The map a call's own hint set, own edits and own responses determine (no
\* two resolutions of the call on one field): the resolved primary key under
\* each field resolved, the direct value under each other direct hint
OwnResult(fr) ==
    LET resolved == { fr.lookupPromises[k].param.field : k \in OwnEntries(fr) }
        direct   == { fr.query[n].key : n \in OwnDirectHints(fr) }
    IN  [f \in resolved \cup direct |->
            IF f \in resolved
            THEN LET k == CHOOSE l \in OwnEntries(fr) :
                              fr.lookupPromises[l].param.field = f
                 IN  fr.lookupPromises[k].response.items[1][
                         CHOOSE pk \in DOMAIN fr.lookupPromises[k].response.items[1] : TRUE]
            ELSE LET n == CHOOSE m \in OwnDirectHints(fr) : fr.query[m].key = f
                 IN  fr.query[n].value]

\* The requests a call's own resolutions need
OwnRequests(fr) ==
    { k \in 1..Len(fr.lookupPromises) :
        /\ fr.lookupPromises[k].param.relatedCollection # NULL
        /\ \E r \in PrimaryKeys :
              r.collection = fr.lookupPromises[k].param.relatedCollection }

\* C22: of two calls that run interleaved or one after the other, each
\* returns the map its own hint set, edits and responses determine; each
\* sends one request for each of its own resolutions that needs one, whatever
\* the other call has sent or received; and a step of one call, a completing
\* resolution included, leaves the locals and the map of the other as they
\* were.
C22_CallsIsolated ==
    /\ [](TwoCalls =>
            \A c \in { 1, 2 } :
                /\ CallFrame(c).pc # "raised"
                /\ CallFrame(c).pc = "returned"
                      => CallFrame(c).prefillData = OwnResult(CallFrame(c))
                /\ Len(CallFrame(c).apiCalls)
                      = Cardinality(OwnRequests(CallFrame(c))))
    /\ [][TwoCalls =>
            /\ focus' = focus => other' = other
            /\ focus' # focus =>
                  /\ CallFrame(1)' = CallFrame(1)
                  /\ CallFrame(2)' = CallFrame(2)]_vars

\* Witness of C22: two calls with the same hint set and edits have both
\* returned, each after a request of its own, with different maps.
C22_Witness ==
    /\ TwoCalls
    /\ CallFrame(1).pc = "returned"
    /\ CallFrame(2).pc = "returned"
    /\ CallFrame(1).query = CallFrame(2).query
    /\ CallFrame(1).existingEdits = CallFrame(2).existingEdits
    /\ Len(CallFrame(1).apiCalls) = 1
    /\ CallFrame(1).apiCalls = CallFrame(2).apiCalls
    /\ CallFrame(1).prefillData # CallFrame(2).prefillData

----------------------------------------------------------------------------
(* C23 *)

\* C23: the aggregator looks a hint's owning field up in existingEdits in the
\* synchronous pass only: a resolution is scheduled only for a field that is
\* not a key of existingEdits at that moment, and when the caller adds the
\* field to existingEdits while the request is in flight, a resolution that
\* returns an entry still writes it under that field, and the returned map
\* holds it.
C23_EditsReadInPassOnly ==
    /\ [](call = AGGREGATE =>
            /\ pc = "loop" =>
                  \A k \in Lookups :
                      lookupPromises[k].param.field \notin DOMAIN existingEdits
            /\ pc = "returned" =>
                  \A k \in Lookups :
                      (HasEntry(k) /\ SoleSuccess(k)) =>
                          /\ lookupPromises[k].param.field \in DOMAIN prefillData
                          /\ prefillData[lookupPromises[k].param.field]
                                = lookupPromises[k].result.value)
    /\ [][\A k \in Lookups :
            ( /\ call = AGGREGATE
              /\ lookupPromises[k].status = "pending"
              /\ lookupPromises'[k].status = "fulfilled"
              /\ lookupPromises'[k].response.kind = "items"
              /\ lookupPromises'[k].response.items # << >> )
                => /\ lookupPromises[k].param.field \in DOMAIN prefillData'
                   /\ prefillData'[lookupPromises[k].param.field]
                         \in PkValues]_vars

\* Witness of C23: a call has returned a resolved primary key under a field
\* that its caller added to existingEdits while the request was in flight.
C23_Witness ==
    /\ Returned
    /\ \E k \in Lookups :
          /\ HasEntry(k)
          /\ lookupPromises[k].param.field \in DOMAIN existingEdits
          /\ lookupPromises[k].param.field \in DOMAIN prefillData
          /\ prefillData[lookupPromises[k].param.field]
                = lookupPromises[k].result.value

----------------------------------------------------------------------------
(* C24 *)

\* C24: after any sequence of save and clear the store holds at most 100
\* measurements, and after clear it holds none.
C24_AtMostMaxMeasurements ==
    /\ Len(measurements) <= 100
    /\ saved = << >> => measurements = << >>

\* Witness of C24: more than 100 measurements have been saved since the last
\* clear and the store holds 100.
C24_Witness ==
    /\ Len(saved) > 100
    /\ Len(measurements) = 100

----------------------------------------------------------------------------
(* C25 *)

\* The last k elements of a sequence, in their order
LastOf(s, k) == [j \in 1..k |-> s[Len(s) - k + j]]

Min(a, b) == IF a <= b THEN a ELSE b

\* C25: the store holds the last min(n, 100) of the n measurements saved
\* since the last clear, in the order they were saved, and latestMeasurements
\* is the last min(10, length) of the stored ones, in the same order.
C25_MostRecentInOrder ==
    /\ measurements = LastOf(saved, Min(Len(saved), 100))
    /\ latestMeasurements = LastOf(measurements, Min(10, Len(measurements)))

\* Witness of C25: the oldest measurements have been evicted: the store
\* begins with the third saved, and latestMeasurements holds ten.
C25_Witness ==
    /\ Len(saved) = 102
    /\ measurements[1] = saved[3]
    /\ measurements[1] # saved[1]
    /\ Len(latestMeasurements) = 10
    /\ latestMeasurements[10] = saved[102]

====
